---- MODULE Spec2Model ----
(***************************************************************************)
(* A model of the logger library: LogLevel (src/src/levels.rs) and Logger  *)
(* (src/src/logger.rs).                                                    *)
(*                                                                         *)
(* Text (a message, a line, the bytes of a file, the standard output) is a *)
(* sequence of one-character strings, so that formatting is concatenation  *)
(* and lines can be counted.  A path is a string.  The file system is a    *)
(* function from paths to files; a file is absent or present, read-only or *)
(* not, and holds its bytes.  A panic ends the process: its diagnostic is  *)
(* kept in `panic` and nothing runs afterwards.                            *)
(*                                                                         *)
(* One log call runs in three steps, in the order of the code: the println *)
(* (Log), the open / write_all / flush of the file (LogAppend) and the     *)
(* termination check with the return (LogCheck).  pc is "idle" outside a   *)
(* call, "append" once the line is printed, "check" once it is in the      *)
(* file, and "println" in a call whose println has panicked.               *)
(***************************************************************************)
EXTENDS Integers, Sequences, FiniteSets, TLC

\* ------------------------------------------------------------------ bounds

\* Operations in one run: the Loggers built (by new, default or clone), the log
\* calls made and the actions of the external actor, all together.
MaxOps == 4
\* The threads: SpecMT runs them both; Spec and SpecEnv run thread 1 alone.
Threads == {1, 2}

VARIABLES
    fs,        \* the file system: path -> [exists, readonly, data]
    full,      \* the device is full: a write to a file may fail
    stdout,    \* the bytes written to the standard output
    stdoutOk,  \* the standard output can be written (it is no closed pipe, ..)
    loggers,   \* the Logger values built so far: [log_file, terminate_on_error]
    pc,        \* thread -> "idle", "println", "append", "check"
    frame,     \* thread -> the log call it is in: [self, level, message, call]
    panic,     \* NoPanic, or the panic that ended the process: [msg, at]
    calls,     \* history: the log calls made, in call order, with their result
    built,     \* history: logger -> how it was built: [by, arg, flag, origin, born]
    envSteps   \* the number of actions the external actor has taken

vars == <<fs, full, stdout, stdoutOk, loggers, pc, frame, panic, calls, built, envSteps>>

\* The operations started so far.
Ops == Len(loggers) + Len(calls) + envSteps

\* ------------------------------------------------------------------ inputs

\* A path whose directory does not exist (test_logger_new_invalid_path).
BadPath == "/nonexistent/directory/test.log"

GoodPaths == {"default.log", "t.log"}

Paths == GoodPaths \cup {BadPath}

\* The paths given to new: the empty path as well.
InputPaths == Paths \cup {""}

\* The messages given to log: one without and one with an embedded newline.
Messages == { <<"m">>, <<"x", "\n", "y">> }

\* The log calls made: every level, every message.
LogInputs ==
    { [level |-> "Info",    message |-> <<"m">>],
      [level |-> "Info",    message |-> <<"x", "\n", "y">>],
      [level |-> "Debug",   message |-> <<"m">>],
      [level |-> "Warning", message |-> <<"x", "\n", "y">>],
      [level |-> "Error",   message |-> <<"m">>] }

\* What a file may hold before the program starts.
OldData == <<"o", "l", "d", "\n">>

\* ------------------------------------------------------------------ levels.rs

LogLevel == {"Info", "Debug", "Warning", "Error"}

to_level_string(level) ==
    CASE level = "Info"    -> <<"I", "N", "F", "O">>
      [] level = "Debug"   -> <<"D", "E", "B", "U", "G">>
      [] level = "Warning" -> <<"W", "A", "R", "N", "I", "N", "G">>
      [] level = "Error"   -> <<"E", "R", "R", "O", "R">>

\* A faulty variant of fmt: the derived Debug rendering, the name of the variant.
fmt_as_debug(level) ==
    CASE level = "Info"    -> <<"I", "n", "f", "o">>
      [] level = "Debug"   -> <<"D", "e", "b", "u", "g">>
      [] level = "Warning" -> <<"W", "a", "r", "n", "i", "n", "g">>
      [] level = "Error"   -> <<"E", "r", "r", "o", "r">>

\* impl Display for LogLevel: write!(f, "{}", self.to_level_string()).
fmt(level) == to_level_string(level)

\* ------------------------------------------------------------------ logger.rs

\* The diagnostics of the five panics, each as the words of its message that
\* do not depend on the error (that of unwrap() is "called `Result::unwrap()` on
\* an `Err` value: Os { .. }").
CREATE_ERROR == "Logger: I cannot create the log file"
PRINT_ERROR == "failed printing to stdout"
UNWRAP_ERROR == "Result::unwrap()"
WRITE_ERROR == "Logger: I cannot write to the log file."
TERMINATED == "Logger: Application terminated abnormally."

NoFile == [exists |-> FALSE, readonly |-> FALSE, data |-> <<>>]

\* A faulty variant of log_file_of: another default name.
log_file_of_other_default(log_file_path) ==
    IF log_file_path = "" THEN "t.log" ELSE log_file_path

\* let log_file = if log_file_path.is_empty() { "default.log" } else { .. }
log_file_of(log_file_path) ==
    IF log_file_path = "" THEN "default.log" ELSE log_file_path

\* A faulty variant of create: the file is created if absent but not truncated.
create_no_truncate(fsys, path) ==
    IF path = BadPath \/ (fsys[path].exists /\ fsys[path].readonly)
    THEN [ok |-> FALSE, fs |-> fsys]
    ELSE [ok |-> TRUE,
          fs |-> [fsys EXCEPT ![path] =
                    [exists |-> TRUE, readonly |-> FALSE, data |-> @.data]]]

\* File::create(&log_file): creates the file, or truncates the one there.  It
\* fails in a directory that does not exist and on a read-only file.
create(fsys, path) ==
    IF path = BadPath \/ (fsys[path].exists /\ fsys[path].readonly)
    THEN [ok |-> FALSE, fs |-> fsys]
    ELSE [ok |-> TRUE,
          fs |-> [fsys EXCEPT ![path] =
                    [exists |-> TRUE, readonly |-> FALSE, data |-> <<>>]]]

\* A faulty variant of open: create(true), an absent file is created.
open_create(fsys, path) ==
    IF fsys[path].exists /\ fsys[path].readonly
    THEN [ok |-> FALSE, fs |-> fsys]
    ELSE [ok |-> TRUE,
          fs |-> [fsys EXCEPT ![path] =
                    [exists |-> TRUE, readonly |-> FALSE, data |-> @.data]]]

\* OpenOptions::new().append(true).read(false).create(false).open(..): the file
\* must be there and writable; nothing is created.
open(fsys, path) ==
    IF fsys[path].exists /\ ~fsys[path].readonly
    THEN [ok |-> TRUE, fs |-> fsys]
    ELSE [ok |-> FALSE, fs |-> fsys]

\* println!("[{}] {}", level, message)
println(level, message) ==
    <<"[">> \o fmt(level) \o <<"]", " ">> \o message \o <<"\n">>

\* The write of println!: all the bytes on the standard output; when it cannot
\* be written only the first `n` of them, and an error.
print_to_stdout(out, bytes, n) ==
    IF n = Len(bytes)
    THEN [ok |-> TRUE, out |-> out \o bytes]
    ELSE [ok |-> FALSE, out |-> out \o SubSeq(bytes, 1, n)]

\* A faulty variant of msg: the newline is left out.
msg_no_newline(level, message) ==
    <<"[">> \o to_level_string(level) \o <<"]", " ">> \o message

\* let msg = format!("[{}] {}\n", level.to_level_string(), message)
msg(level, message) ==
    <<"[">> \o to_level_string(level) \o <<"]", " ">> \o message \o <<"\n">>

\* A faulty variant of write_all: the file is opened to be overwritten, not appended to.
write_all_no_append(fsys, path, bytes, n) ==
    IF n = Len(bytes)
    THEN [ok |-> TRUE,
          fs |-> [fsys EXCEPT ![path].data =
                    bytes \o SubSeq(@, Len(bytes) + 1, Len(@))]]
    ELSE [ok |-> FALSE,
          fs |-> [fsys EXCEPT ![path].data =
                    SubSeq(bytes, 1, n) \o SubSeq(@, n + 1, Len(@))]]

\* log_file.write_all(msg.as_bytes()) in append mode: all the bytes at the end
\* of the file, or, when the device has no room for them, only the first `n`
\* of them and an error.
write_all(fsys, path, bytes, n) ==
    IF n = Len(bytes)
    THEN [ok |-> TRUE,
          fs |-> [fsys EXCEPT ![path].data = @ \o bytes]]
    ELSE [ok |-> FALSE,
          fs |-> [fsys EXCEPT ![path].data = @ \o SubSeq(bytes, 1, n)]]

\* A faulty variant of must_terminate: the level is not looked at.
must_terminate_any_level(self, level) ==
    self.terminate_on_error

\* A faulty variant of must_terminate: the flag is not looked at.
must_terminate_any_logger(self, level) ==
    level = "Error"

\* if level == LogLevel::Error && self.terminate_on_error
must_terminate(self, level) ==
    level = "Error" /\ self.terminate_on_error

\* Logger::new as a function of the file system: the path is resolved, the
\* file created, and on success the Logger holds the resolved path and the flag.
new(fsys, log_file_path, terminate_on_error) ==
    LET log_file == log_file_of(log_file_path)
        r == create(fsys, log_file)
    IN  [ok |-> r.ok, fs |-> r.fs, log_file |-> log_file,
         terminate_on_error |-> terminate_on_error]

\* impl Default for Logger: Logger::new("default.log", true)
default(fsys) == new(fsys, "default.log", TRUE)

NoPanic == [msg |-> "none", at |-> ""]

NoFrame == [self |-> 0, level |-> "Info", message |-> <<>>, call |-> 0]

\* Before main: no Logger, nothing printed; the log files may be left from an
\* earlier run, and the standard output may be one that cannot be written.
Init ==
    /\ \E left \in BOOLEAN :
          fs = [p \in Paths |->
                  IF left /\ p \in GoodPaths
                  THEN [exists |-> TRUE, readonly |-> FALSE, data |-> OldData]
                  ELSE NoFile]
    /\ full = FALSE
    /\ stdout = <<>>
    /\ stdoutOk \in BOOLEAN
    /\ loggers = <<>>
    /\ pc = [t \in Threads |-> "idle"]
    /\ frame = [t \in Threads |-> NoFrame]
    /\ panic = NoPanic
    /\ calls = <<>>
    /\ built = <<>>
    /\ envSteps = 0

\* A construction with result r: the Logger on success, the panic
\* "Logger: I cannot create the log file" otherwise.  `how` is kept as history.
Construct(t, how, r) ==
    /\ panic = NoPanic
    /\ pc[t] = "idle"
    /\ Ops < MaxOps
    /\ IF r.ok
       THEN /\ fs' = r.fs
            /\ loggers' = Append(loggers, [log_file |-> r.log_file,
                              terminate_on_error |-> r.terminate_on_error])
            /\ built' = Append(built, how)
            /\ panic' = panic
       ELSE /\ panic' = [msg |-> CREATE_ERROR, at |-> r.log_file]
            /\ UNCHANGED <<fs, loggers, built>>
    /\ UNCHANGED <<full, stdout, stdoutOk, pc, frame, calls, envSteps>>

\* Logger::new(log_file_path, terminate_on_error)
New(t, log_file_path, terminate_on_error) ==
    Construct(t, [by |-> "new", arg |-> log_file_path, flag |-> terminate_on_error,
                  origin |-> 0, born |-> Len(calls)],
              new(fs, log_file_path, terminate_on_error))

\* Logger::default()
Default(t) ==
    Construct(t, [by |-> "default", arg |-> "", flag |-> TRUE,
                  origin |-> 0, born |-> Len(calls)],
              default(fs))

\* A faulty variant of Clone: the clone is built by new, which creates the file again.
CloneByNew(t, i) ==
    /\ panic = NoPanic
    /\ pc[t] = "idle"
    /\ Ops < MaxOps
    /\ i \in 1..Len(loggers)
    /\ fs' = new(fs, loggers[i].log_file, loggers[i].terminate_on_error).fs
    /\ loggers' = Append(loggers, [log_file |-> loggers[i].log_file,
                      terminate_on_error |-> loggers[i].terminate_on_error])
    /\ built' = Append(built, [by |-> "clone", arg |-> "", flag |-> FALSE,
                               origin |-> i, born |-> Len(calls)])
    /\ UNCHANGED <<full, stdout, stdoutOk, pc, frame, panic, calls, envSteps>>

\* #[derive(Clone)]: a copy of the two fields.
Clone(t, i) ==
    /\ panic = NoPanic
    /\ pc[t] = "idle"
    /\ Ops < MaxOps
    /\ i \in 1..Len(loggers)
    /\ loggers' = Append(loggers, [log_file |-> loggers[i].log_file,
                      terminate_on_error |-> loggers[i].terminate_on_error])
    /\ built' = Append(built, [by |-> "clone", arg |-> "", flag |-> FALSE,
                               origin |-> i, born |-> Len(calls)])
    /\ UNCHANGED <<fs, full, stdout, stdoutOk, pc, frame, panic, calls, envSteps>>

\* A faulty variant of Log: the termination check comes first, before the line is printed.
LogCheckFirst(t, i, level, message) ==
    /\ panic = NoPanic
    /\ pc[t] = "idle"
    /\ Ops < MaxOps
    /\ i \in 1..Len(loggers)
    /\ calls' = Append(calls, [self |-> i, level |-> level, message |-> message,
                              thread |-> t, result |-> "pending"])
    /\ frame' = [frame EXCEPT ![t] = [self |-> i, level |-> level,
                                      message |-> message, call |-> Len(calls) + 1]]
    /\ IF must_terminate(loggers[i], level)
       THEN /\ panic' = [msg |-> TERMINATED, at |-> loggers[i].log_file]
            /\ UNCHANGED <<stdout, pc>>
       ELSE LET line == println(level, message)
            IN  \E n \in IF stdoutOk THEN {Len(line)} ELSE 0..(Len(line) - 1) :
                  LET w == print_to_stdout(stdout, line, n)
                  IN  /\ stdout' = w.out
                      /\ IF w.ok
                         THEN /\ pc' = [pc EXCEPT ![t] = "append"]
                              /\ panic' = panic
                         ELSE /\ pc' = [pc EXCEPT ![t] = "println"]
                              /\ panic' = [msg |-> PRINT_ERROR,
                                           at |-> loggers[i].log_file]
    /\ UNCHANGED <<fs, full, stdoutOk, loggers, built, envSteps>>

\* Logger::log, first step: the line on the screen.  println! panics when the
\* standard output cannot be written.
Log(t, i, level, message) ==
    /\ panic = NoPanic
    /\ pc[t] = "idle"
    /\ Ops < MaxOps
    /\ i \in 1..Len(loggers)
    /\ calls' = Append(calls, [self |-> i, level |-> level, message |-> message,
                              thread |-> t, result |-> "pending"])
    /\ frame' = [frame EXCEPT ![t] = [self |-> i, level |-> level,
                                      message |-> message, call |-> Len(calls) + 1]]
    /\ LET line == println(level, message)
       IN  \E n \in IF stdoutOk THEN {Len(line)} ELSE 0..(Len(line) - 1) :
             LET w == print_to_stdout(stdout, line, n)
             IN  /\ stdout' = w.out
                 /\ IF w.ok
                    THEN /\ pc' = [pc EXCEPT ![t] = "append"]
                         /\ panic' = panic
                    ELSE /\ pc' = [pc EXCEPT ![t] = "println"]
                         /\ panic' = [msg |-> PRINT_ERROR, at |-> loggers[i].log_file]
    /\ UNCHANGED <<fs, full, stdoutOk, loggers, built, envSteps>>

\* Logger::log, second step: the line on the log file (open, write_all, flush;
\* File::flush does nothing and cannot fail).  On a full device the write may
\* still find room in the blocks the file owns.
LogAppend(t) ==
    /\ panic = NoPanic
    /\ pc[t] = "append"
    /\ LET path == loggers[frame[t].self].log_file
           bytes == msg(frame[t].level, frame[t].message)
           o == open(fs, path)
       IN  IF ~o.ok
           THEN /\ panic' = [msg |-> UNWRAP_ERROR, at |-> path]
                /\ fs' = o.fs
                /\ pc' = pc
           ELSE \E n \in IF full THEN 0..Len(bytes) ELSE {Len(bytes)} :
                  LET w == write_all(o.fs, path, bytes, n)
                  IN  /\ fs' = w.fs
                      /\ IF w.ok
                         THEN /\ pc' = [pc EXCEPT ![t] = "check"]
                              /\ panic' = panic
                         ELSE /\ panic' = [msg |-> WRITE_ERROR, at |-> path]
                              /\ pc' = pc
    /\ UNCHANGED <<full, stdout, stdoutOk, loggers, frame, calls, built, envSteps>>

\* Logger::log, third step: the termination check, then Ok(()).
LogCheck(t) ==
    /\ panic = NoPanic
    /\ pc[t] = "check"
    /\ IF must_terminate(loggers[frame[t].self], frame[t].level)
       THEN /\ panic' = [msg |-> TERMINATED, at |-> loggers[frame[t].self].log_file]
            /\ UNCHANGED <<pc, frame, calls>>
       ELSE /\ pc' = [pc EXCEPT ![t] = "idle"]
            /\ frame' = [frame EXCEPT ![t] = NoFrame]
            /\ calls' = [calls EXCEPT ![frame[t].call].result = "Ok"]
            /\ panic' = panic
    /\ UNCHANGED <<fs, full, stdout, stdoutOk, loggers, built, envSteps>>

\* ------------------------------------------------------------------ the external actor

\* fs::remove_file(&log_file), as the tests do once they are done.
EnvRemove(p) ==
    /\ panic = NoPanic
    /\ Ops < MaxOps
    /\ fs[p].exists
    /\ fs' = [fs EXCEPT ![p] = NoFile]
    /\ envSteps' = envSteps + 1
    /\ UNCHANGED <<full, stdout, stdoutOk, loggers, pc, frame, panic, calls, built>>

\* The file loses its write permission.
EnvReadOnly(p) ==
    /\ panic = NoPanic
    /\ Ops < MaxOps
    /\ fs[p].exists
    /\ ~fs[p].readonly
    /\ fs' = [fs EXCEPT ![p].readonly = TRUE]
    /\ envSteps' = envSteps + 1
    /\ UNCHANGED <<full, stdout, stdoutOk, loggers, pc, frame, panic, calls, built>>

\* The reader of the standard output goes away.
EnvBreakStdout ==
    /\ panic = NoPanic
    /\ Ops < MaxOps
    /\ stdoutOk
    /\ stdoutOk' = FALSE
    /\ envSteps' = envSteps + 1
    /\ UNCHANGED <<fs, full, stdout, loggers, pc, frame, panic, calls, built>>

\* The device runs out of space.
EnvFull ==
    /\ panic = NoPanic
    /\ Ops < MaxOps
    /\ ~full
    /\ full' = TRUE
    /\ envSteps' = envSteps + 1
    /\ UNCHANGED <<fs, stdout, stdoutOk, loggers, pc, frame, panic, calls, built>>

\* ------------------------------------------------------------------ specifications

\* What one thread may do next.
Step(t) ==
    \/ \E p \in InputPaths, b \in BOOLEAN : New(t, p, b)
    \/ Default(t)
    \/ \E i \in 1..MaxOps : Clone(t, i)
    \/ \E i \in 1..MaxOps, c \in LogInputs : Log(t, i, c.level, c.message)
    \/ LogAppend(t)
    \/ LogCheck(t)

Env ==
    \/ \E p \in GoodPaths : EnvRemove(p)
    \/ \E p \in GoodPaths : EnvReadOnly(p)
    \/ EnvFull
    \/ EnvBreakStdout

\* The program alone, on its main thread.
Next == Step(1)

Spec == Init /\ [][Next]_vars

\* The main thread and an external actor on the file system and on the standard
\* output.
NextEnv == Step(1) \/ Env

SpecEnv == Init /\ [][NextEnv]_vars

\* Several threads sharing one Logger that does not terminate, and its clones.
\* The Logger is built before the threads start: Logger::new("t.log", false).
\* The standard output can be written, so that no thread panics.
InitMT ==
    /\ fs = create([p \in Paths |-> NoFile], log_file_of("t.log")).fs
    /\ full = FALSE
    /\ stdout = <<>>
    /\ stdoutOk = TRUE
    /\ loggers = << [log_file |-> log_file_of("t.log"), terminate_on_error |-> FALSE] >>
    /\ pc = [t \in Threads |-> "idle"]
    /\ frame = [t \in Threads |-> NoFrame]
    /\ panic = NoPanic
    /\ calls = <<>>
    /\ built = << [by |-> "new", arg |-> "t.log", flag |-> FALSE,
                   origin |-> 0, born |-> 0] >>
    /\ envSteps = 0

NextMT ==
    \E t \in Threads :
        \/ \E i \in 1..MaxOps : Clone(t, i)
        \/ \E i \in 1..MaxOps, c \in LogInputs : Log(t, i, c.level, c.message)
        \/ LogAppend(t)
        \/ LogCheck(t)

SpecMT == InitMT /\ [][NextMT]_vars

\* ------------------------------------------------------------------ the claims

\* The table of the level names.
LevelName(level) ==
    CASE level = "Info"    -> <<"I", "N", "F", "O">>
      [] level = "Debug"   -> <<"D", "E", "B", "U", "G">>
      [] level = "Warning" -> <<"W", "A", "R", "N", "I", "N", "G">>
      [] level = "Error"   -> <<"E", "R", "R", "O", "R">>

\* The record of one call: "[LEVEL] message\n".
Record(c) == <<"[">> \o LevelName(c.level) \o <<"]", " ">> \o c.message \o <<"\n">>

\* The records of the calls cs, one after the other.
RECURSIVE Records(_)
Records(cs) == IF cs = <<>> THEN <<>> ELSE Record(Head(cs)) \o Records(Tail(cs))

IsPrefix(a, b) == Len(a) <= Len(b) /\ SubSeq(b, 1, Len(a)) = a

EndsWith(b, a) == Len(a) <= Len(b) /\ SubSeq(b, Len(b) - Len(a) + 1, Len(b)) = a

\* The number of lines of a text: its newlines.
Lines(text) == Cardinality({n \in 1..Len(text) : text[n] = "\n"})

NewlineFree(text) == \A n \in 1..Len(text) : text[n] # "\n"

Idle == \A t \in Threads : pc[t] = "idle"

PathOf(i) == loggers[i].log_file

\* The Logger that i is, or is a clone (of a clone ..) of.
RECURSIVE Root(_)
Root(i) == IF built[i].origin = 0 THEN i ELSE Root(built[i].origin)

\* Logger i was built by new or default, and no Logger was built on its path since.
LastBuiltOnPath(i) ==
    /\ built[i].origin = 0
    /\ \A j \in (i + 1)..Len(loggers) : built[j].origin = 0 => PathOf(j) # PathOf(i)

\* The calls made through the Loggers in `through` that returned, in call order.
ReturnedThrough(through) ==
    LET Sel(c) == c.self \in through /\ c.result = "Ok"
    IN  SelectSeq(calls, Sel)

\* Every call on the path of Logger i since it was built went through `through`.
OnlyThrough(i, through) ==
    \A k \in (built[i].born + 1)..Len(calls) :
        PathOf(calls[k].self) = PathOf(i) => calls[k].self \in through

\* C1: a Logger built by new on a path that nothing else touches afterwards: the
\* records of its calls that returned, in call order, are a prefix of the file;
\* once the calls have returned they are the whole file, and n messages without
\* a newline make n lines.
C1_AppendOnly ==
    \A i \in 1..Len(loggers) :
        (LastBuiltOnPath(i) /\ OnlyThrough(i, {i})) =>
            LET done == ReturnedThrough({i})
                data == fs[PathOf(i)].data
            IN  /\ IsPrefix(Records(done), data)
                /\ (Idle /\ panic = NoPanic) =>
                      /\ data = Records(done)
                      /\ (\A k \in 1..Len(done) : NewlineFree(done[k].message))
                            => Lines(data) = Len(done)

\* Three calls through one Logger have returned and their three records are the
\* file.
C1_Witness ==
    \E i \in 1..Len(loggers) :
        /\ LastBuiltOnPath(i) /\ OnlyThrough(i, {i})
        /\ Idle /\ panic = NoPanic
        /\ Len(ReturnedThrough({i})) = 3
        /\ ReturnedThrough({i})[1].level # ReturnedThrough({i})[2].level
        /\ fs[PathOf(i)].data = Records(ReturnedThrough({i}))

\* The call thread 1 is in, and the Logger it is made through.
InCall == pc[1] # "idle"

Self == loggers[frame[1].self]

\* C2 as stated: the process ends abnormally only when new cannot create the
\* file, or within a log call of level Error on a Logger that terminates on error.
C2_TwoSituations ==
    panic # NoPanic =>
        \/ panic.msg = CREATE_ERROR /\ ~InCall /\ ~create(fs, panic.at).ok
        \/ InCall /\ frame[1].level = "Error" /\ Self.terminate_on_error

\* C2, amended: there are two more situations, a log call that cannot write its
\* line to the standard output, and a log call that cannot open the file for
\* appending or cannot write the whole record to it.  The process ends
\* abnormally in these four situations only, and a log call of level Error on a
\* Logger that terminates on error never returns.
C2_FourSituations ==
    /\ panic # NoPanic =>
        \/ /\ panic.msg = CREATE_ERROR
           /\ ~InCall
           /\ ~create(fs, panic.at).ok
        \/ /\ panic.msg = TERMINATED
           /\ pc[1] = "check"
           /\ frame[1].level = "Error" /\ Self.terminate_on_error
        \/ /\ panic.msg = PRINT_ERROR
           /\ pc[1] = "println"
           /\ ~stdoutOk
        \/ /\ panic.msg = UNWRAP_ERROR
           /\ pc[1] = "append"
           /\ ~fs[Self.log_file].exists \/ fs[Self.log_file].readonly
        \/ /\ panic.msg = WRITE_ERROR
           /\ pc[1] = "append"
           /\ full
    /\ \A k \in 1..Len(calls) :
          calls[k].result = "Ok" =>
              ~(calls[k].level = "Error" /\ loggers[calls[k].self].terminate_on_error)

\* A log call of level Info on a Logger that does not terminate on error has
\* ended the process: its file was removed.
C2_Witness ==
    /\ panic.msg = UNWRAP_ERROR
    /\ frame[1].level = "Info"
    /\ ~Self.terminate_on_error
    /\ ~fs[Self.log_file].exists

\* C3: within a log call the line goes to the standard output first, then to
\* the file, then comes the termination check: the call begins at the standard
\* output with the file untouched, and goes on to the file only with its record
\* printed whole; it leaves "append" by appending its record to the file and
\* nothing else; and the panic of the termination check is raised from "check"
\* alone, with the record already the last of the standard output and of the
\* file.
C3_Order ==
    [][ LET path == Self.log_file
        IN  /\ (pc[1] = "idle" /\ pc'[1] # "idle") =>
                  /\ fs' = fs
                  /\ IsPrefix(stdout, stdout')
                  /\ IsPrefix(stdout', stdout \o Record(frame'[1]))
                  /\ IF stdout' = stdout \o Record(frame'[1])
                     THEN pc'[1] = "append" /\ panic' = NoPanic
                     ELSE pc'[1] = "println" /\ panic'.msg = PRINT_ERROR
            /\ (pc[1] = "println" /\ pc'[1] # "println") => FALSE
            /\ (pc[1] = "append" /\ pc'[1] # "append") =>
                  /\ pc'[1] = "check"
                  /\ stdout' = stdout
                  /\ fs' = [fs EXCEPT ![path].data = @ \o Record(frame[1])]
                  /\ panic' = NoPanic
            /\ (pc[1] = "check" /\ pc'[1] # "check") =>
                  /\ pc'[1] = "idle"
                  /\ stdout' = stdout
                  /\ fs' = fs
                  /\ ~must_terminate(Self, frame[1].level)
            /\ (panic = NoPanic /\ panic'.msg = TERMINATED) =>
                  /\ pc[1] = "check"
                  /\ must_terminate(Self, frame[1].level)
                  /\ EndsWith(stdout, Record(frame[1]))
                  /\ EndsWith(fs[path].data, Record(frame[1]))
                  /\ stdout' = stdout
                  /\ fs' = fs
      ]_vars

\* log(Error, m) has ended the process, and the record of m is the last of the
\* standard output and of the file.
C3_Witness ==
    /\ panic.msg = TERMINATED
    /\ frame[1].level = "Error"
    /\ EndsWith(stdout, Record(frame[1]))
    /\ EndsWith(fs[Self.log_file].data, Record(frame[1]))

\* The file of the call thread 1 is in can be opened for appending and written.
Writable == fs[Self.log_file].exists /\ ~fs[Self.log_file].readonly /\ ~full

\* Thread 1 takes a step of the call it is in.
CallStep == pc'[1] # pc[1] \/ panic' # panic

\* C4 as stated: on a Logger that does not terminate on error, a log call of any
\* level prints its record; with the file present and writable it appends the
\* record to the file without ending the process; and it then returns Ok(()).
C4_AsStated ==
    [][ /\ (pc[1] = "idle" /\ pc'[1] # "idle"
                /\ ~loggers[frame'[1].self].terminate_on_error) =>
                  /\ stdout' = stdout \o Record(frame'[1])
                  /\ panic' = NoPanic
        /\ (pc[1] = "append" /\ CallStep /\ ~Self.terminate_on_error /\ Writable) =>
                  /\ pc'[1] = "check"
                  /\ panic' = NoPanic
                  /\ fs'[Self.log_file].data = fs[Self.log_file].data \o Record(frame[1])
        /\ (pc[1] = "check" /\ CallStep /\ ~Self.terminate_on_error) =>
                  /\ pc'[1] = "idle"
                  /\ panic' = NoPanic
                  /\ calls'[frame[1].call].result = "Ok"
      ]_vars

\* C4, amended: on a Logger that does not terminate on error, a log call of any
\* level made while the standard output can be written prints its record; with
\* the file present and writable it appends the record to the file without
\* ending the process; and it then returns Ok(()).
C4_NoTermination ==
    [][ /\ (pc[1] = "idle" /\ pc'[1] # "idle" /\ stdoutOk
                /\ ~loggers[frame'[1].self].terminate_on_error) =>
                  /\ pc'[1] = "append"
                  /\ stdout' = stdout \o Record(frame'[1])
                  /\ panic' = NoPanic
        /\ (pc[1] = "append" /\ CallStep /\ ~Self.terminate_on_error /\ Writable) =>
                  /\ pc'[1] = "check"
                  /\ panic' = NoPanic
                  /\ fs'[Self.log_file].data = fs[Self.log_file].data \o Record(frame[1])
        /\ (pc[1] = "check" /\ CallStep /\ ~Self.terminate_on_error) =>
                  /\ pc'[1] = "idle"
                  /\ panic' = NoPanic
                  /\ calls'[frame[1].call].result = "Ok"
      ]_vars

\* Two calls of level Error on a Logger that does not terminate have returned,
\* and the record of the second is the last of the file.
C4_Witness ==
    /\ panic = NoPanic
    /\ Len(calls) >= 2
    /\ \A k \in 1..2 :
          /\ calls[k].level = "Error"
          /\ calls[k].result = "Ok"
          /\ ~loggers[calls[k].self].terminate_on_error
    /\ EndsWith(fs[PathOf(calls[2].self)].data, Record(calls[2]))
    /\ EndsWith(stdout, Record(calls[2]))

\* No call was made on the path of Logger i since it was built.
NoCallSince(i) ==
    \A k \in (built[i].born + 1)..Len(calls) : PathOf(calls[k].self) # PathOf(i)

\* C5: once new has returned and before any log call, the file is there and is
\* empty, whatever the path held before.
C5_CreatedEmpty ==
    \A i \in 1..Len(loggers) :
        (LastBuiltOnPath(i) /\ NoCallSince(i)) =>
            /\ fs[PathOf(i)].exists
            /\ fs[PathOf(i)].data = <<>>

\* A second Logger was built on the path of a first one, after a call through
\* the first had written its record there; the file is empty.
C5_Witness ==
    \E i \in 1..Len(loggers), j \in 1..Len(loggers), k \in 1..Len(calls) :
        /\ j < i
        /\ PathOf(j) = PathOf(i)
        /\ LastBuiltOnPath(i) /\ NoCallSince(i)
        /\ calls[k].self = j /\ calls[k].result = "Ok"
        /\ built[j].born < k /\ k <= built[i].born
        /\ fs[PathOf(i)].data = <<>>

\* The Loggers that are r or come from r by cloning.
Family(r) == {i \in 1..Len(loggers) : Root(i) = r}

\* C6: a clone holds the two fields of the Logger it was cloned from, and cloning
\* leaves the file alone: the records of the calls that returned, made through a
\* Logger and its clones, are in the file once each in call order, as if every
\* call had been made through the original.
C6_Clones ==
    /\ \A i \in 1..Len(loggers) :
          built[i].origin # 0 => loggers[i] = loggers[built[i].origin]
    /\ \A r \in 1..Len(loggers) :
          (LastBuiltOnPath(r) /\ OnlyThrough(r, Family(r))) =>
              LET done == ReturnedThrough(Family(r))
                  asOriginal == [k \in 1..Len(done) |-> [done[k] EXCEPT !.self = r]]
                  data == fs[PathOf(r)].data
              IN  /\ IsPrefix(Records(asOriginal), data)
                  /\ (Idle /\ panic = NoPanic) => data = Records(asOriginal)

\* A call through a Logger has returned, the Logger was then cloned, a call
\* through the clone has returned, and the file holds the two records.
C6_Witness ==
    \E r \in 1..Len(loggers), c \in 1..Len(loggers) :
        /\ built[c].origin = r
        /\ built[c].born = 1
        /\ LastBuiltOnPath(r) /\ OnlyThrough(r, Family(r))
        /\ Idle /\ panic = NoPanic
        /\ Len(calls) = 2
        /\ calls[1].self = r /\ calls[1].result = "Ok"
        /\ calls[2].self = c /\ calls[2].result = "Ok"
        /\ fs[PathOf(r)].data = Record(calls[1]) \o Record(calls[2])

\* C7: no Logger holds an empty path: new stores "default.log" for the empty
\* path and any other path as given, with the flag as given; new("", t) and
\* new("default.log", t) give the same Logger and the same file system; and
\* default() is new("default.log", true).
C7_PathResolved ==
    /\ \A i \in 1..Len(loggers) :
          /\ loggers[i].log_file # ""
          /\ built[i].by = "new" =>
                loggers[i] = [log_file |-> IF built[i].arg = "" THEN "default.log"
                                           ELSE built[i].arg,
                              terminate_on_error |-> built[i].flag]
          /\ built[i].by = "default" =>
                loggers[i] = [log_file |-> "default.log", terminate_on_error |-> TRUE]
    /\ \A t \in BOOLEAN : new(fs, "", t) = new(fs, "default.log", t)
    /\ \A t \in BOOLEAN, p \in Paths :
          /\ new(fs, p, t).log_file = p
          /\ new(fs, p, t).terminate_on_error = t
    /\ default(fs) = new(fs, "default.log", TRUE)

\* One Logger was built by new on the empty path and one by default(); both
\* hold "default.log", which is there.
C7_Witness ==
    \E i \in 1..Len(loggers), j \in 1..Len(loggers) :
        /\ built[i].by = "new" /\ built[i].arg = ""
        /\ built[j].by = "default"
        /\ PathOf(i) = "default.log" /\ PathOf(j) = "default.log"
        /\ fs["default.log"].exists

\* For every level and message the printed line and the file's line are the
\* same and are the record; Display renders a level as to_level_string does, by
\* the table, and no two levels alike.
SameLines ==
    \A level \in LogLevel :
        /\ fmt(level) = to_level_string(level)
        /\ fmt(level) = LevelName(level)
        /\ \A other \in LogLevel : fmt(other) = fmt(level) => other = level
        /\ \A message \in Messages :
              /\ println(level, message) = msg(level, message)
              /\ msg(level, message) = Record([level |-> level, message |-> message])

\* C8: the line a call prints and the line it appends to the file are the same,
\* "[LEVEL] message\n" with LEVEL from the table, for every level and message
\* (of a call ended by println, the standard output holds a part of that line);
\* Display renders a level as to_level_string does, and no two levels alike.
C8_Format ==
    /\ IF panic.msg = PRINT_ERROR
       THEN /\ IsPrefix(Records(SubSeq(calls, 1, Len(calls) - 1)), stdout)
            /\ IsPrefix(stdout, Records(calls))
            /\ stdout # Records(calls)
       ELSE stdout = Records(calls)
    /\ pc[1] = "check" =>
          /\ EndsWith(stdout, Record(frame[1]))
          /\ EndsWith(fs[Self.log_file].data, Record(frame[1]))
    /\ SameLines

\* A call of level Warning with a newline in its message has printed its line
\* and appended it to the file.
C8_Witness ==
    /\ pc[1] = "check"
    /\ frame[1].level = "Warning"
    /\ ~NewlineFree(frame[1].message)
    /\ EndsWith(stdout, Record(frame[1]))
    /\ EndsWith(fs[Self.log_file].data, Record(frame[1]))

\* C9 as stated: log never creates the file.  A call made with its file gone
\* prints its line and comes to the open, where it ends the process with the
\* panic of unwrap(), whatever the level and the flag: it does not return, and
\* the file stays absent.
C9_AsStated ==
    [][ /\ (pc[1] = "idle" /\ pc'[1] # "idle"
                /\ ~fs[loggers[frame'[1].self].log_file].exists) =>
              /\ pc'[1] = "append"
              /\ stdout' = stdout \o Record(frame'[1])
              /\ fs' = fs
        /\ (pc[1] = "append" /\ CallStep /\ ~fs[Self.log_file].exists) =>
              /\ panic'.msg = UNWRAP_ERROR
              /\ pc'[1] = "append"
              /\ calls' = calls
              /\ fs' = fs
              /\ stdout' = stdout
              /\ EndsWith(stdout, Record(frame[1]))
        /\ \A p \in Paths :
              (~fs[p].exists /\ fs'[p].exists) =>
                  /\ Len(loggers') = Len(loggers) + 1
                  /\ built'[Len(loggers')].origin = 0
      ]_vars

\* C9, amended: log never creates the file.  A call made with its file gone
\* while the standard output can be written prints its line and comes to the
\* open, where it ends the process with the panic of unwrap(), whatever the level
\* and the flag: it does not return, and the file stays absent.  While the
\* standard output cannot be written the call ends the process at println, and
\* the file stays absent as well.
C9_NoRecreate ==
    [][ /\ (pc[1] = "idle" /\ pc'[1] # "idle"
                /\ ~fs[loggers[frame'[1].self].log_file].exists) =>
              /\ fs' = fs
              /\ IF stdoutOk
                 THEN pc'[1] = "append" /\ stdout' = stdout \o Record(frame'[1])
                 ELSE pc'[1] = "println" /\ panic'.msg = PRINT_ERROR
        /\ (pc[1] = "append" /\ CallStep /\ ~fs[Self.log_file].exists) =>
              /\ panic'.msg = UNWRAP_ERROR
              /\ pc'[1] = "append"
              /\ calls' = calls
              /\ fs' = fs
              /\ stdout' = stdout
              /\ EndsWith(stdout, Record(frame[1]))
        /\ \A p \in Paths :
              (~fs[p].exists /\ fs'[p].exists) =>
                  /\ Len(loggers') = Len(loggers) + 1
                  /\ built'[Len(loggers')].origin = 0
      ]_vars

\* A call of level Error on a Logger that terminates on error has ended the
\* process at the open: the file is gone and the line is on the standard output.
C9_Witness ==
    /\ panic.msg = UNWRAP_ERROR
    /\ stdoutOk
    /\ ~fs[panic.at].exists
    /\ frame[1].level = "Error"
    /\ Self.terminate_on_error
    /\ calls[frame[1].call].result = "pending"
    /\ EndsWith(stdout, Record(frame[1]))

\* The calls that have appended to the file: all but those still at "append".
Appended ==
    {k \in 1..Len(calls) : ~\E t \in Threads : pc[t] = "append" /\ frame[t].call = k}

\* The orders of the members of S.
Orders(S) ==
    {f \in [1..Cardinality(S) -> S] :
        \A a \in 1..Cardinality(S), b \in 1..Cardinality(S) : f[a] = f[b] => a = b}

\* C10: with threads calling log at the same time on a Logger that does not
\* terminate and on its clones, the file holds the whole record of every call
\* that has appended, once each, in some order; the standard output holds the
\* records in the order the calls started.
C10_Permutation ==
    /\ stdout = Records(calls)
    /\ \E f \in Orders(Appended) :
          fs[PathOf(1)].data = Records([k \in 1..Cardinality(Appended) |-> calls[f[k]]])

\* Two calls have returned; their records are in one order on the standard
\* output and in the other in the file.
C10_Witness ==
    /\ Idle
    /\ Len(calls) = 2
    /\ calls[1].result = "Ok" /\ calls[2].result = "Ok"
    /\ Record(calls[1]) # Record(calls[2])
    /\ stdout = Record(calls[1]) \o Record(calls[2])
    /\ fs[PathOf(1)].data = Record(calls[2]) \o Record(calls[1])

====
